---- MODULE Spec2Model ----
\* Model of functions_js/index.js: the createUserProfile trigger, the
\* Firestore "users" collection it writes to and the platform that delivers
\* (and redelivers) account-created events to it.
EXTENDS Integers, Sequences, FiniteSets, TLC

\* ------------------------------------------------------------------ bounds
MaxInv == 2          \* handler invocations the platform starts
MaxClock == 2        \* largest value of the store's clock
MaxCoin == 1         \* largest balance another process writes

Slots == 1..MaxInv

\* ------------------------------------------------------------ JS values
\* A JavaScript value: a type tag, the string it holds, the number it holds.
Undefined == [t |-> "undefined", s |-> "", n |-> 0]
Null == [t |-> "null", s |-> "", n |-> 0]
Str(x) == [t |-> "string", s |-> x, n |-> 0]
Num(k) == [t |-> "number", s |-> "", n |-> k]
\* A timestamp the store assigned, and the sentinel that asks for one.
Timestamp(k) == [t |-> "timestamp", s |-> "", n |-> k]
ServerTimestamp == [t |-> "serverTimestamp", s |-> "", n |-> 0]

\* JavaScript truthiness of the values that occur here.
Truthy(v) ==
    CASE v.t = "string" -> v.s # ""
      [] v.t = "number" -> v.n # 0
      [] v.t = "undefined" -> FALSE
      [] v.t = "null" -> FALSE
      [] OTHER -> TRUE

OrAnd(a, b) == IF Truthy(a) THEN b ELSE a
\* a || b
Or(a, b) == IF Truthy(a) THEN a ELSE b

\* ------------------------------------------------------------- the inputs
Uids == {"abc123", "xyz789"}
EmailValues == {Undefined, Null, Str(""), Str("a@example.com")}
DisplayNameValues == {Undefined, Null, Str(""), Str("Ada")}
\* The account-created events: every combination of the optional fields for
\* abc123, and for xyz789 the event without them.
UserRecords ==
    [uid : {"abc123"}, email : EmailValues, displayName : DisplayNameValues]
        \cup [uid : {"xyz789"}, email : {Null}, displayName : {Null}]
\* Keys of the users collection: the uids, and the ids the store generates
\* for documents added without a key.
AutoId(i) == "auto" \o ToString(i)
Keys == Uids \cup {AutoId(i) : i \in Slots}

ProfileFields == {"email", "displayName", "coin", "createdAt"}
EmptyData == [f \in {} |-> Null]
NoDoc == [exists |-> FALSE, data |-> EmptyData]

VARIABLES
    events,     \* uid -> the account-created event (UserRecord) of that uid
    store,      \* key -> the document at users/<key>
    clock,      \* the store's clock
    inv,        \* slot -> the state of that handler invocation
    commits     \* history: the writes the store committed, in commit order

vars == <<events, store, clock, inv, commits>>

\* ------------------------------------------------------------ the handler
DocRefAdd(user, i) == AutoId(i)
DocRefShared(user, i) == "abc123"
\* db.collection("users").doc(user.uid)
DocRef(user, i) == user.uid

ProfileCoinOne(user) ==
    [email |-> Or(user.email, Null),
     displayName |-> Or(user.displayName, Null),
     coin |-> Num(1),
     createdAt |-> ServerTimestamp]
ProfileLocalClock(user) ==
    [email |-> Or(user.email, Null),
     displayName |-> Or(user.displayName, Null),
     coin |-> Num(0),
     createdAt |-> Timestamp(clock)]
\* The object literal passed to set().
Profile(user) ==
    [email |-> Or(user.email, Null),
     displayName |-> Or(user.displayName, Null),
     coin |-> Num(0),
     createdAt |-> ServerTimestamp]

ReturnedNoAwait(w) == "success"
ReturnedSwallow(w) == IF w = "inflight" THEN "none" ELSE "success"
\* The outcome of the async callback, which returns the promise of set():
\* it settles as that promise settles.
Returned(w) ==
    CASE w = "committed" -> "success"
      [] w = "failed" -> "failure"
      [] OTHER -> "none"

\* -------------------------------------------------------------- the store
Merge(f, g) == [x \in (DOMAIN f) \cup (DOMAIN g) |-> IF x \in DOMAIN g THEN g[x] ELSE f[x]]

\* The store replaces every serverTimestamp sentinel by its clock value.
Resolve(data, now) ==
    [f \in DOMAIN data |-> IF data[f] = ServerTimestamp THEN Timestamp(now) ELSE data[f]]

SetMerge(old, data) == [exists |-> TRUE, data |-> Merge(old.data, data)]
SetCreateOnly(old, data) == IF old.exists THEN old ELSE [exists |-> TRUE, data |-> data]
\* DocumentReference.set(data) without options: create or overwrite.
Set(old, data) == [exists |-> TRUE, data |-> data]

\* An invocation that has not started.  after is history: the invocations
\* that had already reported their outcome when this one started.
Idle == [uid |-> "", key |-> "", payload |-> EmptyData, write |-> "none",
         result |-> "none", attempts |-> 0, after |-> {}]

Init ==
    /\ events \in {e \in [Uids -> UserRecords] : \A u \in Uids : e[u].uid = u}
    /\ store = [k \in Keys |-> NoDoc]
    /\ clock = 0
    /\ inv = [i \in Slots |-> Idle]
    /\ commits = <<>>

\* The platform delivers the event of uid u to a fresh invocation (they are
\* numbered in the order they start); the callback runs up to the point where
\* set() has been called and its promise returned.
Invoke(i, u) ==
    /\ inv[i] = Idle
    /\ \A j \in Slots : j < i => inv[j] # Idle
    /\ inv' = [inv EXCEPT ![i] =
                  [uid |-> u,
                   key |-> DocRef(events[u], i),
                   payload |-> Profile(events[u]),
                   write |-> "inflight",
                   result |-> "none",
                   attempts |-> inv[i].attempts + 1,
                   after |-> {j \in Slots : inv[j].result # "none"}]]
    /\ UNCHANGED <<events, store, clock, commits>>

\* The store commits the write of invocation i and acknowledges it.
StoreCommit(i) ==
    /\ inv[i].write = "inflight"
    /\ LET k == inv[i].key
           doc == Set(store[k], Resolve(inv[i].payload, clock))
       IN /\ store' = [store EXCEPT ![k] = doc]
          /\ commits' = Append(commits,
                 [inv |-> i, key |-> k, at |-> clock, before |-> store[k], doc |-> doc])
    /\ inv' = [inv EXCEPT ![i].write = "committed"]
    /\ UNCHANGED <<events, clock>>

\* The write of invocation i fails: the set() promise rejects.
StoreFail(i) ==
    /\ inv[i].write = "inflight"
    /\ inv' = [inv EXCEPT ![i].write = "failed"]
    /\ UNCHANGED <<events, store, clock, commits>>

\* The callback's promise settles and the platform sees the outcome.
Settle(i) ==
    /\ inv[i].write # "none"
    /\ inv[i].result = "none"
    /\ Returned(inv[i].write) # "none"
    /\ inv' = [inv EXCEPT ![i].result = Returned(inv[i].write)]
    /\ UNCHANGED <<events, store, clock, commits>>

\* Time passes at the store.
Tick ==
    /\ clock < MaxClock
    /\ clock' = clock + 1
    /\ UNCHANGED <<events, store, inv, commits>>

\* Another process changes the balance of an existing profile and records
\* what was bought.
Collaborator(u, c) ==
    /\ store[u].exists
    /\ store' = [store EXCEPT ![u].data =
                    Merge(@, [coin |-> Num(c), lastPurchase |-> Str("filter-pack")])]
    /\ UNCHANGED <<events, clock, inv, commits>>

Next ==
    \/ \E i \in Slots, u \in Uids : Invoke(i, u)
    \/ \E i \in Slots : StoreCommit(i)
    \/ \E i \in Slots : StoreFail(i)
    \/ \E i \in Slots : Settle(i)
    \/ Tick

Spec == Init /\ [][Next]_vars

\* The handler together with the other process: started from the two events
\* of the documented scenarios (abc123 with email and display name, xyz789
\* with neither).
InitCollab ==
    /\ Init
    /\ events["abc123"].email = Str("a@example.com")
    /\ events["abc123"].displayName = Str("Ada")

NextCollab ==
    \/ Next
    \/ \E u \in Uids, c \in 1..MaxCoin : Collaborator(u, c)

SpecCollab == InitCollab /\ [][NextCollab]_vars

TypeOK ==
    /\ clock \in 0..MaxClock
    /\ Len(commits) <= MaxInv
    /\ \A i \in Slots : inv[i].write \in {"none", "inflight", "committed", "failed"}
    /\ \A i \in Slots : inv[i].result \in {"none", "success", "failure"}
\* ------------------------------------------------------- derived notions
\* What the claims expect to be stored for an optional field of the event.
Stored(v) == IF v.t = "string" /\ v.s # "" THEN v ELSE Null
\* The event carries no value for the field.
Absent(v) == v.t \in {"undefined", "null"}
\* The commits made at key k, as indices into the history.
CommitsAt(k) == {c \in 1..Len(commits) : commits[c].key = k}
CommitsOf(i) == {c \in 1..Len(commits) : commits[c].inv = i}
LastCommitAt(k) == CHOOSE c \in CommitsAt(k) : \A d \in CommitsAt(k) : d <= c
Started(u) == {i \in Slots : inv[i].uid = u}
Succeeded(i) == inv[i].result = "success"
Docs == {k \in Keys : store[k].exists}

\* C1: whenever an invocation for uid u has completed successfully, users/u
\* holds a document whose coin is 0 and whose createdAt is a timestamp the
\* store assigned at one of its commits.
C1_ProfileAfterSuccess ==
    \A i \in Slots : Succeeded(i) =>
        LET d == store[inv[i].uid] IN
        /\ d.exists
        /\ d.data.coin = Num(0)
        /\ d.data.createdAt.t = "timestamp"
        /\ \E c \in CommitsAt(inv[i].uid) : d.data.createdAt = Timestamp(commits[c].at)

C1_Witness ==
    \E i \in Slots : Succeeded(i) /\ inv[i].uid = "xyz789" /\ store["xyz789"].exists

\* C2 as stated: after a successful invocation the stored email equals the
\* event's email for any string the event carries, and is null exactly when
\* the event carries none; the same for displayName.
C2_AnyStringStored ==
    \A i \in Slots : Succeeded(i) =>
        LET user == events[inv[i].uid]
            d == store[inv[i].uid].data IN
        /\ user.email.t = "string" => d.email = user.email
        /\ d.email = Null <=> Absent(user.email)
        /\ user.displayName.t = "string" => d.displayName = user.displayName
        /\ d.displayName = Null <=> Absent(user.displayName)

\* C2 amended: the stored email equals the event's email for any non-empty
\* string, and is null exactly when the event carries none or the empty
\* string; the same, independently, for displayName; coin is 0.
C2_NonEmptyStringStored ==
    \A i \in Slots : Succeeded(i) =>
        LET user == events[inv[i].uid]
            d == store[inv[i].uid].data IN
        /\ (user.email.t = "string" /\ user.email.s # "") => d.email = user.email
        /\ d.email = Null <=> (Absent(user.email) \/ user.email = Str(""))
        /\ (user.displayName.t = "string" /\ user.displayName.s # "")
              => d.displayName = user.displayName
        /\ d.displayName = Null <=> (Absent(user.displayName) \/ user.displayName = Str(""))
        /\ (Absent(user.email) /\ Absent(user.displayName)) => d.coin = Num(0)

C2_Witness ==
    \E i \in Slots :
        /\ Succeeded(i)
        /\ events[inv[i].uid].email = Str("a@example.com")
        /\ events[inv[i].uid].displayName = Undefined
        /\ store[inv[i].uid].data.email = Str("a@example.com")
        /\ store[inv[i].uid].data.displayName = Null

\* C3: when the event of a uid is handled twice, the second invocation
\* starting after the first succeeded and both succeeding, the two
\* invocations leave exactly one document between them, at users/<uid>, and
\* the documents the two writes produced both have coin 0 and the same email
\* and displayName.
C3_Idempotent ==
    \A i, j \in Slots :
        (i # j /\ inv[i].uid = inv[j].uid /\ Succeeded(i) /\ Succeeded(j) /\ i \in inv[j].after) =>
            /\ Docs \cap {inv[i].key, inv[j].key} = {inv[i].uid}
            /\ \A a \in CommitsOf(i), b \in CommitsOf(j) :
                  /\ commits[a].doc.data.coin = Num(0)
                  /\ commits[b].doc.data.coin = Num(0)
                  /\ commits[a].doc.data.email = commits[b].doc.data.email
                  /\ commits[a].doc.data.displayName = commits[b].doc.data.displayName
                  /\ DOMAIN commits[a].doc.data = DOMAIN commits[b].doc.data

C3_Witness ==
    \E i, j \in Slots :
        /\ i # j /\ inv[i].uid = inv[j].uid /\ Succeeded(i) /\ Succeeded(j)
        /\ i \in inv[j].after
        /\ \E a \in CommitsOf(i), b \in CommitsOf(j) :
              commits[a].doc.data.createdAt # commits[b].doc.data.createdAt

\* C4: an invocation whose set() failed never reports success, has called
\* set() once only, and has left nothing in the store: none of the commits is
\* its own and every document is the one the last commit at its key wrote.
C4_FailurePropagates ==
    \A i \in Slots : inv[i].write = "failed" =>
        /\ inv[i].result \in {"none", "failure"}
        /\ inv[i].attempts = 1
        /\ CommitsOf(i) = {}
        /\ \A k \in Keys :
              IF CommitsAt(k) = {} THEN store[k] = NoDoc
              ELSE store[k] = commits[LastCommitAt(k)].doc

C4_Witness ==
    \E i, j \in Slots :
        /\ inv[i].write = "failed" /\ inv[i].result = "failure"
        /\ i \in inv[j].after /\ inv[j].uid = inv[i].uid

\* C5: an invocation has reported success only if the store has committed
\* and acknowledged its write of users/<uid>; it has never reported success
\* while the write is in flight or has not been applied.
C5_SuccessAfterAck ==
    \A i \in Slots : Succeeded(i) =>
        /\ inv[i].write = "committed"
        /\ \E c \in CommitsOf(i) : commits[c].key = inv[i].uid

C5_Witness ==
    \E i, j \in Slots : Succeeded(i) /\ inv[j].write = "inflight" /\ inv[j].uid = inv[i].uid

\* C6 as stated: no step changes or deletes a profile document that already
\* exists.
C6_NeverUpdated ==
    [][\A u \in Uids : store[u].exists => store'[u] = store[u]]_vars

\* C7: once every invocation started for uid u has succeeded, in whatever
\* order their writes were committed, users/u is the only document they
\* left, its email, displayName and coin are those the event determines, and
\* its createdAt is the timestamp of the write committed last.
C7_LastWriteWins ==
    \A u \in Uids :
        (Started(u) # {} /\ \A i \in Started(u) : Succeeded(i)) =>
            /\ Docs \cap {inv[i].key : i \in Started(u)} = {u}
            /\ store[u].data = [email |-> Stored(events[u].email),
                                displayName |-> Stored(events[u].displayName),
                                coin |-> Num(0),
                                createdAt |-> Timestamp(commits[LastCommitAt(u)].at)]

C7_Witness ==
    \E i, j \in Slots :
        /\ i < j /\ inv[i].uid = inv[j].uid /\ Succeeded(i) /\ Succeeded(j)
        /\ i \notin inv[j].after
        /\ \E a \in CommitsOf(i), b \in CommitsOf(j) : b < a /\ commits[b].at < commits[a].at

\* C8: the write request never carries a createdAt computed by the handler,
\* only the sentinel; every committed document carries the store's clock
\* value at its commit; and of two commits the later one never carries the
\* smaller createdAt.
C8_ServerTimestamps ==
    /\ \A i \in Slots : inv[i].write # "none" => inv[i].payload.createdAt = ServerTimestamp
    /\ \A c \in 1..Len(commits) :
          /\ commits[c].doc.data.createdAt = Timestamp(commits[c].at)
          /\ \A b \in 1..c : commits[b].doc.data.createdAt.n <= commits[c].doc.data.createdAt.n

C8_Witness ==
    /\ Len(commits) = 2
    /\ commits[1].inv = 2 /\ commits[2].inv = 1
    /\ commits[1].key # commits[2].key
    /\ commits[1].doc.data.createdAt.n < commits[2].doc.data.createdAt.n

\* C9: the step that commits an invocation's write leaves at users/<uid>
\* exactly the four fields email, displayName, coin = 0 and createdAt = the
\* store's clock, whatever the document held before, a balance another
\* process had changed included.
C9_FullOverwrite ==
    [][\A i \in Slots :
          (inv[i].write = "inflight" /\ inv'[i].write = "committed") =>
              LET d == store'[inv[i].uid] IN
              /\ d.exists
              /\ DOMAIN d.data = ProfileFields
              /\ d.data = [email |-> Stored(events[inv[i].uid].email),
                           displayName |-> Stored(events[inv[i].uid].displayName),
                           coin |-> Num(0),
                           createdAt |-> Timestamp(clock)]]_vars

C9_Witness ==
    \E c \in 1..Len(commits) :
        /\ commits[c].before.exists
        /\ commits[c].before.data.coin = Num(MaxCoin)
        /\ "lastPurchase" \in DOMAIN commits[c].before.data
        /\ commits[c].before.data.createdAt # commits[c].doc.data.createdAt
        /\ store[commits[c].key].data.coin = Num(0)
        /\ DOMAIN store[commits[c].key].data = ProfileFields

\* C10: a step changes a document only by committing the write of an
\* invocation, and then only the document at that invocation's users/<uid>;
\* no invocation calls set() or has a write committed more than once.
C10_Frame ==
    [][/\ \A k \in Keys : store'[k] # store[k] =>
              \E i \in Slots :
                  /\ inv[i].write = "inflight" /\ inv'[i].write = "committed"
                  /\ inv[i].uid = k
                  /\ \A k2 \in Keys \ {k} : store'[k2] = store[k2]
       /\ \A i \in Slots :
              /\ inv'[i].attempts <= 1
              /\ Cardinality({c \in 1..Len(commits') : commits'[c].inv = i}) <= 1]_vars

C10_Witness ==
    /\ Len(commits) = 2
    /\ commits[1].key = "xyz789" /\ commits[2].key = "abc123"
    /\ store["xyz789"] = commits[1].doc
    /\ store["abc123"] = commits[2].doc
====
